---- MODULE Spec2Model ----
(***************************************************************************)
(* Aoclytic: a private Advent of Code leaderboard viewer.                  *)
(*                                                                         *)
(*   - the transformation functions of src/src/App.jsx                     *)
(*     (findDefaultSelection, findDefaultPlayerId, buildLeaderboard,       *)
(*     buildPlayerSubmissions, computePartAvailability), specification     *)
(*     SpecPure;                                                           *)
(*   - the App component's form, handleSubmit and its 15 minute cache,     *)
(*     specification Spec;                                                 *)
(*   - the serverless proxy handler of src/unnamed/part_001,               *)
(*     specification SpecProxy.                                            *)
(*                                                                         *)
(* JavaScript strings that the code takes apart, converts or concatenates  *)
(* (day keys, member ids, form fields, cache keys) are sequences of one    *)
(* character strings: "10" is <<"1", "0">>.  Fixed texts are TLA+ strings. *)
(***************************************************************************)
EXTENDS Integers, Sequences, FiniteSets

VARIABLES
    \* SpecPure: the leaderboard document under transformation, last call
    doc, out,
    \* Spec: React state of App (useState / useRef)
    year, leaderboardCode, sessionToken,
    selectedDay, selectedPart, selectedPlayerId,
    leaderboard, loading, error, cache,
    \* Spec: environment of App: wall clock, pending fetch promises,
    \* number of fetch() calls made, what the last form submission did
    now, ticks, inflight, netCalls, lastEvent,
    \* SpecProxy: the request being handled, handler position, upstream
    \* exchange, responses sent
    req, ppc, upstream, upstreamCalls, res

pureVars  == <<doc, out>>
appVars   == <<year, leaderboardCode, sessionToken, selectedDay, selectedPart,
               selectedPlayerId, leaderboard, loading, error, cache,
               now, ticks, inflight, netCalls, lastEvent>>
proxyVars == <<req, ppc, upstream, upstreamCalls, res>>
vars      == <<pureVars, appVars, proxyVars>>

----------------------------------------------------------------------------
(* Bounds of the model *)

\* members of a generated document
MaxMembers == 3
\* completion entries of a generated document
MaxStars == 3
\* get_star_ts ranges over 0..MaxTs
MaxTs == 1

----------------------------------------------------------------------------
(* JavaScript values *)

\* null / undefined
Null == [tag |-> "null"]
undefined == [tag |-> "undefined"]

\* the error state of App when there is no error: the empty text
NoError == [text |-> "", status |-> 0]

\* the decimal digits as characters, and a digit character's value
Digits == <<"0", "1", "2", "3", "4", "5", "6", "7", "8", "9">>
DigitValue(c) == CHOOSE v \in 0..9 : Digits[v + 1] = c

RECURSIVE ToString(_)
\* String(n) / n.toString() of a non-negative integer: its decimal digits
ToString(n) ==
    IF n < 10 THEN <<Digits[n + 1]>>
    ELSE Append(ToString(n \div 10), Digits[(n % 10) + 1])

RECURSIVE Number(_)
\* Number(s) of a string of decimal digits; Number("") is 0
Number(s) ==
    IF s = <<>> THEN 0
    ELSE 10 * Number(SubSeq(s, 1, Len(s) - 1)) + DigitValue(s[Len(s)])

RECURSIVE LexLess(_, _)
\* s < t on strings of digits: character by character, a prefix first
LexLess(s, t) ==
    IF t = <<>> THEN FALSE
    ELSE IF s = <<>> THEN TRUE
    ELSE IF Head(s) # Head(t) THEN DigitValue(Head(s)) < DigitValue(Head(t))
    ELSE LexLess(Tail(s), Tail(t))

RECURSIVE InsertNumber(_, _)
\* stable insertion of x into an ascending sequence of numbers
InsertNumber(sorted, x) ==
    IF sorted = <<>> THEN <<x>>
    ELSE IF x - Head(sorted) < 0
         THEN <<x>> \o sorted
         ELSE <<Head(sorted)>> \o InsertNumber(Tail(sorted), x)

RECURSIVE SortNumbers(_)
\* Array.prototype.sort((a, b) => a - b) on numbers
SortNumbers(s) ==
    IF s = <<>> THEN <<>>
    ELSE InsertNumber(SortNumbers(SubSeq(s, 1, Len(s) - 1)), s[Len(s)])

RECURSIVE Flatten(_)
\* concatenation of a sequence of sequences (the flat of flatMap)
Flatten(ss) == IF ss = <<>> THEN <<>> ELSE Head(ss) \o Flatten(Tail(ss))

RECURSIVE Enumerate(_)
\* the elements of a finite set in some order
Enumerate(S) ==
    IF S = {} THEN <<>>
    ELSE LET x == CHOOSE y \in S : TRUE IN <<x>> \o Enumerate(S \ {x})

\* Object.keys of an object whose keys are canonical decimal strings:
\* integer-like keys are listed in ascending numeric order
ObjectKeys(obj) ==
    LET ks  == Enumerate(DOMAIN obj)
        num == SortNumbers([i \in 1..Len(ks) |-> Number(ks[i])])
    IN  [i \in 1..Len(num) |-> ToString(num[i])]

----------------------------------------------------------------------------
(* Leaderboard documents *)

\* the part keys of completion_day_level[day]
Parts == {"1", "2"}

\* the day keys that occur in generated documents: a one digit and a two
\* digit day, so that numeric and textual order differ
DocDays == {ToString(2), ToString(10)}

\* the days a caller may ask for: the document's and one without data
ArgDays == DocDays \cup {ToString(1)}

Timestamps == 0..MaxTs

\* the members that may join a board, in key order; even ids have no name
MemberName(id) == IF id % 2 = 1 THEN "Ann" ELSE ""

NewMember(id) == [id |-> id, name |-> MemberName(id), completion_day_level |-> <<>>]

\* Object.values(leaderboard?.members ?? {}): the members in key order
Members(lb) == IF lb = Null THEN <<>> ELSE lb.members

\* member.completion_day_level?.[day]?.[part]
Completion(member, day, part) ==
    LET cdl == member.completion_day_level
    IN  IF day \in DOMAIN cdl /\ part \in DOMAIN cdl[day]
        THEN cdl[day][part]
        ELSE undefined

\* the number of completion entries of a document
Stars(lb) ==
    LET ms == Members(lb)
        RECURSIVE Sum(_)
        Sum(i) == IF i = 0 THEN 0
                  ELSE Sum(i - 1)
                       + Cardinality({dp \in DocDays \X Parts :
                            Completion(ms[i], dp[1], dp[2]) # undefined})
    IN  Sum(Len(ms))

\* the member's completions with an entry for (day, part) at ts added
WithStar(member, day, part, ts) ==
    LET cdl   == member.completion_day_level
        old   == IF day \in DOMAIN cdl THEN cdl[day] ELSE <<>>
        parts == [p \in (DOMAIN old) \cup {part} |->
                     IF p = part THEN [get_star_ts |-> ts] ELSE old[p]]
    IN  [member EXCEPT !.completion_day_level =
            [d \in (DOMAIN cdl) \cup {day} |-> IF d = day THEN parts ELSE cdl[d]]]

----------------------------------------------------------------------------
(* The transformation functions, src/src/App.jsx lines 5-112 *)

\* the texts a completion cell can show
EmptyText == [text |-> "", ms |-> 0]
NotCompleted == [text |-> "Not completed", ms |-> 0]

\* formatCompletionTime: "" for a falsy timestamp, otherwise the locale
\* text of the date timestamp * 1000 ms
formatCompletionTime(timestamp) ==
    IF timestamp = 0 THEN EmptyText
    ELSE [text |-> "toLocaleString", ms |-> timestamp * 1000]

\* member.name || `Anonymous #${member.id}`
DisplayName(member) ==
    IF member.name # "" THEN [text |-> member.name, num |-> <<>>]
    ELSE [text |-> "Anonymous #", num |-> ToString(member.id)]

\* getDayNumbers: "1".."12" for 2025, otherwise "1".."25"
getDayNumbers(y) ==
    LET totalDays == IF Number(y) = 2025 THEN 12 ELSE 25
    IN  [i \in 1..totalDays |-> ToString(i)]

\* allDays of findDefaultSelection: every day key of every member
AllDays(lb) ==
    LET ms == Members(lb)
    IN  Flatten([i \in 1..Len(ms) |-> ObjectKeys(ms[i].completion_day_level)])

RECURSIVE InsertLex(_, _)
\* insertion of x by the text of its decimal form
InsertLex(sorted, x) ==
    IF sorted = <<>> THEN <<x>>
    ELSE IF LexLess(ToString(x), ToString(Head(sorted)))
         THEN <<x>> \o sorted
         ELSE <<Head(sorted)>> \o InsertLex(Tail(sorted), x)

RECURSIVE SortLex(_)
\* Array.prototype.sort() without a comparator: by the elements' text
SortLex(s) ==
    IF s = <<>> THEN <<>>
    ELSE InsertLex(SortLex(SubSeq(s, 1, Len(s) - 1)), s[Len(s)])

\* SortedDayNumbers with the comparator forgotten: allDays.map(Number).sort()
SortedDayNumbers_NoComparator(allDays) ==
    SortLex([i \in 1..Len(allDays) |-> Number(allDays[i])])

\* allDays.map(Number).sort((a, b) => a - b)
SortedDayNumbers(allDays) ==
    SortNumbers([i \in 1..Len(allDays) |-> Number(allDays[i])])

\* members.some(member => member.completion_day_level?.[day]?.[part])
SomeMemberHas(lb, day, part) ==
    \E i \in 1..Len(Members(lb)) : Completion(Members(lb)[i], day, part) # undefined

\* findDefaultSelection
findDefaultSelection(lb) ==
    LET sorted   == SortedDayNumbers(AllDays(lb))
        firstDay == IF sorted # <<>> THEN ToString(sorted[1]) ELSE ToString(1)
        hasPart2 == SomeMemberHas(lb, firstDay, "2")
        hasPart1 == SomeMemberHas(lb, firstDay, "1")
    IN  [day  |-> firstDay,
         part |-> IF hasPart2 THEN "2" ELSE IF hasPart1 THEN "1" ELSE "1"]

RECURSIVE InsertRow(_, _)
\* stable insertion of a row into rows ascending by timestamp
InsertRow(sorted, row) ==
    IF sorted = <<>> THEN <<row>>
    ELSE IF row.timestamp - Head(sorted).timestamp < 0
         THEN <<row>> \o sorted
         ELSE <<Head(sorted)>> \o InsertRow(Tail(sorted), row)

\* SortRows with the sort left out: rows stay in member order
SortRows_MemberOrder(rows) == rows

RECURSIVE SortRows(_)
\* rows.sort((a, b) => a.timestamp - b.timestamp)
SortRows(rows) ==
    IF rows = <<>> THEN <<>>
    ELSE InsertRow(SortRows(SubSeq(rows, 1, Len(rows) - 1)), rows[Len(rows)])

\* the row pushed for a member with a completion
LeaderboardRow(member, completion) ==
    [id          |-> member.id,
     name        |-> DisplayName(member),
     completedAt |-> formatCompletionTime(completion.get_star_ts),
     timestamp   |-> completion.get_star_ts]

RECURSIVE CollectRows_TruthyTs(_, _, _)
\* CollectRows testing the timestamp instead of the entry:
\* if (!completion?.get_star_ts) return
CollectRows_TruthyTs(ms, day, part) ==
    IF ms = <<>> THEN <<>>
    ELSE LET completion == Completion(Head(ms), day, part)
         IN  IF completion = undefined \/ completion.get_star_ts = 0
             THEN CollectRows_TruthyTs(Tail(ms), day, part)
             ELSE <<LeaderboardRow(Head(ms), completion)>>
                  \o CollectRows_TruthyTs(Tail(ms), day, part)

RECURSIVE CollectRows(_, _, _)
\* members.forEach: push a row for each member with a completion
CollectRows(ms, day, part) ==
    IF ms = <<>> THEN <<>>
    ELSE LET completion == Completion(Head(ms), day, part)
         IN  IF completion = undefined
             THEN CollectRows(Tail(ms), day, part)
             ELSE <<LeaderboardRow(Head(ms), completion)>>
                  \o CollectRows(Tail(ms), day, part)

\* .map((row, index) => ({ ...row, rank: index + 1 })): index counts from 0,
\* positions of a sequence from 1
WithRank(rows) ==
    [i \in 1..Len(rows) |->
        [id |-> rows[i].id, name |-> rows[i].name,
         completedAt |-> rows[i].completedAt,
         timestamp |-> rows[i].timestamp, rank |-> i]]

\* buildLeaderboard
buildLeaderboard(lb, day, part) ==
    IF lb = Null THEN <<>>
    ELSE WithRank(SortRows(CollectRows(Members(lb), day, part)))

\* SubmissionRow testing the timestamp instead of the entry:
\* completion?.get_star_ts ? formatCompletionTime(...) : "Not completed"
SubmissionRow_TruthyTs(player, day, part) ==
    LET completion == Completion(player, day, part)
    IN  [day |-> day, part |-> part,
         completedAt |-> IF completion # undefined /\ completion.get_star_ts # 0
                         THEN formatCompletionTime(completion.get_star_ts)
                         ELSE NotCompleted]

\* the row of buildPlayerSubmissions for (day, part) of a player
SubmissionRow(player, day, part) ==
    LET completion == Completion(player, day, part)
    IN  [day |-> day, part |-> part,
         completedAt |-> IF completion # undefined
                         THEN formatCompletionTime(completion.get_star_ts)
                         ELSE NotCompleted]

\* buildPlayerSubmissions; playerId is a string, the empty one is falsy
buildPlayerSubmissions(lb, playerId, dayNumbers) ==
    IF lb = Null \/ playerId = <<>> THEN <<>>
    ELSE LET ms    == Members(lb)
             found == {i \in 1..Len(ms) : ToString(ms[i].id) = playerId}
         IN  IF found = {} THEN <<>>
             ELSE LET player == ms[CHOOSE i \in found : \A j \in found : i <= j]
                  IN  Flatten([d \in 1..Len(dayNumbers) |->
                          <<SubmissionRow(player, dayNumbers[d], "1"),
                            SubmissionRow(player, dayNumbers[d], "2")>>])

\* computePartAvailability marking the day instead of the part:
\* availability[day] ??= { 1: true, 2: true }
computePartAvailability_DayOnly(lb) ==
    LET ms   == Members(lb)
        days == UNION {DOMAIN ms[i].completion_day_level : i \in 1..Len(ms)}
    IN  [day \in days |-> [p \in Parts |-> TRUE]]

\* computePartAvailability: for each day key of any member, which parts
\* some member has an entry for
computePartAvailability(lb) ==
    LET ms   == Members(lb)
        days == UNION {DOMAIN ms[i].completion_day_level : i \in 1..Len(ms)}
        has(day, part) ==
            \E i \in 1..Len(ms) :
                /\ day \in DOMAIN ms[i].completion_day_level
                /\ part \in DOMAIN ms[i].completion_day_level[day]
    IN  [day \in days |-> [p \in Parts |-> has(day, p)]]

\* localeCompare(a, b) < 0 on display names: "Ann" < "Anonymous #..." and
\* anonymous names compare by their digits, character by character
LocaleBefore(a, b) ==
    LET rank(n) == IF n.text = "Ann" THEN 0 ELSE 1
    IN  IF rank(a) # rank(b) THEN rank(a) < rank(b)
        ELSE a.text = "Anonymous #" /\ LexLess(a.num, b.num)

RECURSIVE InsertPlayer(_, _)
\* stable insertion of a player into players ascending by name
InsertPlayer(sorted, p) ==
    IF sorted = <<>> THEN <<p>>
    ELSE IF LocaleBefore(p.name, Head(sorted).name)
         THEN <<p>> \o sorted
         ELSE <<Head(sorted)>> \o InsertPlayer(Tail(sorted), p)

RECURSIVE SortPlayers(_)
\* players.sort((a, b) => a.name.localeCompare(b.name))
SortPlayers(ps) ==
    IF ps = <<>> THEN <<>>
    ELSE InsertPlayer(SortPlayers(SubSeq(ps, 1, Len(ps) - 1)), ps[Len(ps)])

\* the players list: id as a string, display name, sorted by name
Players(lb) ==
    LET ms == Members(lb)
    IN  SortPlayers([i \in 1..Len(ms) |->
            [id |-> ToString(ms[i].id), name |-> DisplayName(ms[i])]])

\* findDefaultPlayerId: the first player's id, "" without members
findDefaultPlayerId(lb) ==
    IF Players(lb) # <<>> THEN Players(lb)[1].id ELSE <<>>

----------------------------------------------------------------------------
(* SpecPure: the transformation functions applied to leaderboard documents.*)
(* The document is the upstream board as it grows: members join in key     *)
(* order and earn stars; a call applies one function to the current        *)
(* document and records arguments and result in out until the caller drops *)
(* them.                                                                   *)

NoCall == [fn |-> "none"]

\* the player ids a caller may pass: every possible member's, the empty
\* string and the id of nobody
ArgPlayers == {ToString(i) : i \in 1..MaxMembers} \cup {<<>>, ToString(99)}

\* the dayNumbers lists a caller may pass
ArgDayLists ==
    {<<>>, <<ToString(2)>>, <<ToString(10), ToString(2), ToString(1)>>,
     getDayNumbers(ToString(2025))}

\* the board is created, without members
NewBoard ==
    /\ out = NoCall
    /\ doc = Null
    /\ doc' = [members |-> <<>>]
    /\ out' = NoCall
    /\ UNCHANGED <<appVars, proxyVars>>

\* the next member joins
Join ==
    /\ out = NoCall
    /\ doc # Null
    /\ Len(doc.members) < MaxMembers
    /\ doc' = [members |-> Append(doc.members, NewMember(Len(doc.members) + 1))]
    /\ out' = NoCall
    /\ UNCHANGED <<appVars, proxyVars>>

\* a member solves a part
Star ==
    /\ out = NoCall
    /\ doc # Null
    /\ Stars(doc) < MaxStars
    /\ \E i \in 1..Len(doc.members), day \in DocDays, part \in Parts, ts \in Timestamps :
          /\ Completion(doc.members[i], day, part) = undefined
          /\ doc' = [members |->
                        [doc.members EXCEPT ![i] = WithStar(@, day, part, ts)]]
    /\ out' = NoCall
    /\ UNCHANGED <<appVars, proxyVars>>

CallFindDefaultSelection ==
    /\ out = NoCall
    /\ out' = [fn |-> "findDefaultSelection", result |-> findDefaultSelection(doc)]
    /\ UNCHANGED <<doc, appVars, proxyVars>>

CallBuildLeaderboard ==
    /\ out = NoCall
    /\ \E day \in ArgDays, part \in Parts :
          out' = [fn |-> "buildLeaderboard", day |-> day, part |-> part,
                  result |-> buildLeaderboard(doc, day, part)]
    /\ UNCHANGED <<doc, appVars, proxyVars>>

CallBuildPlayerSubmissions ==
    /\ out = NoCall
    /\ \E playerId \in ArgPlayers, dayNumbers \in ArgDayLists :
          out' = [fn |-> "buildPlayerSubmissions", playerId |-> playerId,
                  dayNumbers |-> dayNumbers,
                  result |-> buildPlayerSubmissions(doc, playerId, dayNumbers)]
    /\ UNCHANGED <<doc, appVars, proxyVars>>

CallComputePartAvailability ==
    /\ out = NoCall
    /\ out' = [fn |-> "computePartAvailability",
               result |-> computePartAvailability(doc)]
    /\ UNCHANGED <<doc, appVars, proxyVars>>

\* the caller drops the result
Return ==
    /\ out # NoCall
    /\ out' = NoCall
    /\ UNCHANGED <<doc, appVars, proxyVars>>

PureNext ==
    \/ NewBoard
    \/ Join
    \/ Star
    \/ CallFindDefaultSelection
    \/ CallBuildLeaderboard
    \/ CallBuildPlayerSubmissions
    \/ CallComputePartAvailability
    \/ Return

\* no document yet, no call made; the App and the proxy at rest
InitPure ==
    /\ doc = Null
    /\ out = NoCall
    /\ year = <<>> /\ leaderboardCode = <<>> /\ sessionToken = <<>>
    /\ selectedDay = ToString(1) /\ selectedPart = "1" /\ selectedPlayerId = <<>>
    /\ leaderboard = Null /\ loading = FALSE /\ error = NoError /\ cache = <<>>
    /\ now = 0 /\ ticks = 0 /\ inflight = {} /\ netCalls = 0
    /\ lastEvent = "other"
    /\ req = Null /\ ppc = "idle" /\ upstream = Null /\ upstreamCalls = 0
    /\ res = <<>>

SpecPure == InitPure /\ [][PureNext]_vars

----------------------------------------------------------------------------
(* Claims about the transformation functions, checked under SpecPure *)

\* the members of the current document that have an entry for (day, part)
Solvers(day, part) ==
    {i \in 1..Len(Members(doc)) : Completion(Members(doc)[i], day, part) # undefined}

\* C3: for every document and (day, part), the rows buildLeaderboard returns
\* are in non-decreasing timestamp order and the row at position i has rank
\* i, so the ranks are exactly 1..n
C3_SortedAndRanked ==
    out.fn = "buildLeaderboard" =>
        LET rows == out.result
        IN  /\ \A i \in 1..Len(rows) : rows[i].rank = i
            /\ \A i \in 1..(Len(rows) - 1) :
                   rows[i].timestamp <= rows[i + 1].timestamp

\* C3 witness: a ranking of at least two rows in which a member with a later
\* key ranks strictly before one with an earlier key
C3_Witness ==
    /\ out.fn = "buildLeaderboard"
    /\ Len(out.result) >= 2
    /\ out.result[1].id > out.result[2].id
    /\ out.result[1].timestamp < out.result[2].timestamp

\* C4: buildLeaderboard has exactly one row for each member with a completion
\* entry for (day, part), carrying that entry's timestamp, no row for any other
\* member, and is empty when the document is absent or nobody solved the part
C4_ExactlyTheSolvers ==
    out.fn = "buildLeaderboard" =>
        LET rows == out.result
            ms   == Members(doc)
            S    == Solvers(out.day, out.part)
        IN  /\ \A i \in 1..Len(ms) :
                  Cardinality({r \in 1..Len(rows) : rows[r].id = ms[i].id})
                      = IF i \in S THEN 1 ELSE 0
            /\ \A r \in 1..Len(rows) :
                  \E i \in S :
                      /\ rows[r].id = ms[i].id
                      /\ rows[r].timestamp
                             = Completion(ms[i], out.day, out.part).get_star_ts
            /\ (doc = Null \/ S = {}) => rows = <<>>

\* C4 witness: a ranking with a row while another member of the document has
\* no entry for that (day, part), one of the rows having timestamp 0
C4_Witness ==
    /\ out.fn = "buildLeaderboard"
    /\ Len(out.result) >= 1
    /\ Len(Members(doc)) > Len(out.result)
    /\ \E r \in 1..Len(out.result) : out.result[r].timestamp = 0

\* every day key under any member's completions in the current document
DayKeysOf(lb) ==
    UNION {DOMAIN Members(lb)[i].completion_day_level : i \in 1..Len(Members(lb))}

\* C5: findDefaultSelection returns as day the numerically smallest day key
\* under any member's completions ("1" when there is none) and as part "2" if
\* some member has a part 2 entry on that day, otherwise "1"
C5_DefaultSelection ==
    out.fn = "findDefaultSelection" =>
        LET keys == DayKeysOf(doc)
        IN  /\ keys = {} => out.result.day = <<"1">>
            /\ keys # {} =>
                  /\ out.result.day \in keys
                  /\ \A k \in keys : Number(out.result.day) <= Number(k)
            /\ out.result.part =
                  IF \E i \in 1..Len(Members(doc)) :
                        Completion(Members(doc)[i], out.result.day, "2") # undefined
                  THEN "2" ELSE "1"

\* C5 witness: days "2" and "10" both have entries and the selection is
\* day "2" with part "2"
C5_Witness ==
    /\ out.fn = "findDefaultSelection"
    /\ DayKeysOf(doc) = {<<"2">>, <<"1", "0">>}
    /\ out.result = [day |-> <<"2">>, part |-> "2"]

\* C6: for a player id matching a member buildPlayerSubmissions returns
\* exactly Len(dayNumbers) * 2 rows, the rows 2d-1 and 2d being parts "1" and
\* "2" of dayNumbers[d], a row being "Not completed" exactly when the player
\* has no entry for that pair; for an empty id, an id matching no member or an
\* absent document it returns the empty sequence
C6_PlayerSubmissions ==
    out.fn = "buildPlayerSubmissions" =>
        LET rows  == out.result
            days  == out.dayNumbers
            ms    == Members(doc)
            match == {i \in 1..Len(ms) : ToString(ms[i].id) = out.playerId}
        IN  IF out.playerId = <<>> \/ match = {}
            THEN rows = <<>>
            ELSE /\ Len(rows) = Len(days) * 2
                 /\ \A d \in 1..Len(days) : \A p \in 1..2 :
                       LET row == rows[2 * (d - 1) + p]
                       IN  /\ row.day = days[d]
                           /\ row.part = (IF p = 1 THEN "1" ELSE "2")
                           /\ \A i \in match :
                                 (row.completedAt = NotCompleted)
                                 <=> (Completion(ms[i], row.day, row.part) = undefined)

\* C6 witness: six rows for a member, one of them "Not completed" and one a
\* completion whose timestamp is 0
C6_Witness ==
    /\ out.fn = "buildPlayerSubmissions"
    /\ Len(out.result) = 6
    /\ \E r \in 1..6 : out.result[r].completedAt = NotCompleted
    /\ \E r \in 1..6 : out.result[r].completedAt = EmptyText

\* availability[day]?.[part] of a computePartAvailability result
Available(availability, day, part) ==
    day \in DOMAIN availability /\ availability[day][part]

\* C12: for every document with at least one completion the (day, part)
\* findDefaultSelection returns has a non-empty buildLeaderboard result and is
\* marked true by computePartAvailability; and for every document, day and
\* part, computePartAvailability marks (day, part) true exactly when
\* buildLeaderboard(doc, day, part) is non-empty
C12_DefaultIsAvailable ==
    /\ (out.fn = "findDefaultSelection" /\ Stars(doc) >= 1) =>
           /\ buildLeaderboard(doc, out.result.day, out.result.part) # <<>>
           /\ Available(computePartAvailability(doc),
                        out.result.day, out.result.part)
    /\ out.fn = "computePartAvailability" =>
           \A day \in ArgDays, part \in Parts :
               Available(out.result, day, part)
                   <=> (buildLeaderboard(doc, day, part) # <<>>)

\* C12 witness: an availability with day "2" solved in part 2 only and day
\* "10" in part 1 only, the default selection being day "2", part "2"
C12_Witness ==
    /\ out.fn = "computePartAvailability"
    /\ DOMAIN out.result = DocDays
    /\ out.result[ToString(2)]["2"] /\ ~out.result[ToString(2)]["1"]
    /\ out.result[ToString(10)]["1"] /\ ~out.result[ToString(10)]["2"]
    /\ findDefaultSelection(doc) = [day |-> ToString(2), part |-> "2"]
    /\ Len(buildLeaderboard(doc, ToString(2), "2")) >= 1

----------------------------------------------------------------------------
(* Spec: the App component, src/src/App.jsx lines 114-290 and 418-426.     *)
(* One action per event handler or promise continuation; a handler runs to *)
(* its first await in one step and React renders its batched state updates *)
(* before the next event.  The view toggle and handlePartSelect touch none *)
(* of the state below except selectedDay and selectedPart and are left out.*)

\* fetch() calls made before the model stops starting new ones
MaxCalls == 2
\* clock advances before the model stops the clock
MaxTicks == 2

\* const FIFTEEN_MIN = 15 * 60 * 1000, in ms
FIFTEEN_MIN == 15 * 60 * 1000

\* what the user may type: the year (a number input: empty or digits), the
\* leaderboard code and session token (empty, a blank, or a value)
Years  == {<<>>, ToString(2024), ToString(2025)}
Codes  == {<<>>, <<" ">>, <<"A">>}
Tokens == {<<>>, <<" ">>, <<"t">>}

\* how far the clock may jump between events, in ms
ClockSteps == {1, FIFTEEN_MIN - 1}

\* the statuses of a response that is not ok
ErrorStatuses == {404}

\* the messages of a rejected fetch() or response.json()
RejectMessages == {"", "Failed to fetch"}

RECURSIVE trimStart(_)
\* String.prototype.trimStart
trimStart(s) ==
    IF s # <<>> /\ Head(s) = " " THEN trimStart(Tail(s)) ELSE s

RECURSIVE trimEnd(_)
\* String.prototype.trimEnd
trimEnd(s) ==
    IF s # <<>> /\ s[Len(s)] = " " THEN trimEnd(SubSeq(s, 1, Len(s) - 1)) ELSE s

\* String.prototype.trim
trim(s) == trimEnd(trimStart(s))

\* the error texts
ValidationMessage ==
    [text |-> "Please enter both the private leaderboard code and your AoC session token.",
     status |-> 0]
StatusMessage(status) ==
    [text |-> "Unable to load leaderboard (status ${response.status}). ...",
     status |-> status]
\* CaughtMessage without the fallback text: setError(err.message)
CaughtMessage_NoFallback(message) == [text |-> message, status |-> 0]

\* err.message || "Something went wrong while loading data."
CaughtMessage(message) ==
    [text |-> IF message # "" THEN message
              ELSE "Something went wrong while loading data.",
     status |-> 0]

\* `${year}:${leaderboardCode}`
CacheKey(y, code) == y \o <<":">> \o code

\* the member lists the upstream may serve
MembersA ==
    <<WithStar(WithStar(NewMember(1), ToString(2), "1", 1), ToString(2), "2", 1),
      WithStar(NewMember(2), ToString(10), "1", 0)>>
MembersB == <<WithStar(NewMember(3), ToString(10), "1", 1)>>
ServedMembers == {<<>>, MembersA, MembersB}

\* the document upstream serves for the board of a request body
ServedDoc(body, members) ==
    [event |-> body.year, owner_id |-> body.leaderboardCode, members |-> members]

\* the form's constraint validation: the three inputs are `required`, so a
\* click on the submit button fires the submit event only if none is empty
\* FormValid with the required attribute missing on the year input
FormValid_YearOptional == leaderboardCode # <<>> /\ sessionToken # <<>>

FormValid == year # <<>> /\ leaderboardCode # <<>> /\ sessionToken # <<>>

\* SubmitEnabled with the disabled attribute missing on the button
SubmitEnabled_NeverDisabled == TRUE

\* <button type="submit" disabled={loading}>: a click submits unless loading
SubmitEnabled == ~loading

\* IsFresh with <= for <
IsFresh_Inclusive(cached) == now - cached.fetchedAt <= FIFTEEN_MIN

\* IsFresh with the cache check left out
IsFresh_Never(cached) == FALSE

\* cached && Date.now() - cached.fetchedAt < FIFTEEN_MIN, for a present entry
IsFresh(cached) == now - cached.fetchedAt < FIFTEEN_MIN

\* the cache check of handleSubmit for the current fields
CacheHit ==
    LET cacheKey == CacheKey(year, leaderboardCode)
    IN  cacheKey \in DOMAIN cache /\ IsFresh(cache[cacheKey])

\* CacheWrite replacing the whole cache object:
\* cacheRef.current = { [cacheKey]: entry }
CacheWrite_Replace(cacheKey, json) ==
    [k \in {cacheKey} |-> [data |-> json, fetchedAt |-> now]]

\* CacheWrite with the key built after the awaits, from the fields as they
\* are then: cacheRef.current[`${year}:${leaderboardCode}`] = ...
CacheWrite_KeyAtWrite(cacheKey, json) ==
    LET key == CacheKey(year, leaderboardCode)
    IN  [k \in (DOMAIN cache) \cup {key} |->
            IF k = key THEN [data |-> json, fetchedAt |-> now] ELSE cache[k]]

\* cacheRef.current[cacheKey] = { data: json, fetchedAt: Date.now() }
CacheWrite(cacheKey, json) ==
    [k \in (DOMAIN cache) \cup {cacheKey} |->
        IF k = cacheKey THEN [data |-> json, fetchedAt |-> now] ELSE cache[k]]

\* EffectPlayerId when handleSubmit does not set the player itself: current
\* is the selection made on the board shown before
EffectPlayerId_KeepsSelection(current, lb) ==
    IF lb = Null THEN selectedPlayerId
    ELSE IF selectedPlayerId # <<>> THEN selectedPlayerId
    ELSE findDefaultPlayerId(lb)

\* the effect on [leaderboard]: current || findDefaultPlayerId(leaderboard)
EffectPlayerId(current, lb) ==
    IF lb = Null THEN current
    ELSE IF current # <<>> THEN current ELSE findDefaultPlayerId(lb)

\* onChange of the year input
SetYear ==
    /\ \E v \in Years : v # year /\ year' = v
    /\ lastEvent' = "other"
    /\ UNCHANGED <<leaderboardCode, sessionToken, selectedDay, selectedPart,
                   selectedPlayerId, leaderboard, loading, error, cache,
                   now, ticks, inflight, netCalls>>
    /\ UNCHANGED <<pureVars, proxyVars>>

\* onChange of the leaderboard code input
SetLeaderboardCode ==
    /\ \E v \in Codes : v # leaderboardCode /\ leaderboardCode' = v
    /\ lastEvent' = "other"
    /\ UNCHANGED <<year, sessionToken, selectedDay, selectedPart,
                   selectedPlayerId, leaderboard, loading, error, cache,
                   now, ticks, inflight, netCalls>>
    /\ UNCHANGED <<pureVars, proxyVars>>

\* onChange of the session token input
SetSessionToken ==
    /\ \E v \in Tokens : v # sessionToken /\ sessionToken' = v
    /\ lastEvent' = "other"
    /\ UNCHANGED <<year, leaderboardCode, selectedDay, selectedPart,
                   selectedPlayerId, leaderboard, loading, error, cache,
                   now, ticks, inflight, netCalls>>
    /\ UNCHANGED <<pureVars, proxyVars>>

\* time passes
Tick ==
    /\ ticks < MaxTicks
    /\ \E d \in ClockSteps : now' = now + d
    /\ ticks' = ticks + 1
    /\ lastEvent' = "other"
    /\ UNCHANGED <<year, leaderboardCode, sessionToken, selectedDay, selectedPart,
                   selectedPlayerId, leaderboard, loading, error, cache,
                   inflight, netCalls>>
    /\ UNCHANGED <<pureVars, proxyVars>>

\* a click on a player tile: setSelectedPlayerId(player.id)
SelectPlayer ==
    /\ leaderboard # Null
    /\ \E i \in 1..Len(Players(leaderboard)) :
          /\ Players(leaderboard)[i].id # selectedPlayerId
          /\ selectedPlayerId' = Players(leaderboard)[i].id
    /\ lastEvent' = "other"
    /\ UNCHANGED <<year, leaderboardCode, sessionToken, selectedDay, selectedPart,
                   leaderboard, loading, error, cache,
                   now, ticks, inflight, netCalls>>
    /\ UNCHANGED <<pureVars, proxyVars>>

\* a click on the submit button that the form's validation stops: no submit
\* event, handleSubmit does not run
SubmitBlocked ==
    /\ SubmitEnabled
    /\ ~FormValid
    /\ lastEvent' = "blocked"
    /\ UNCHANGED <<year, leaderboardCode, sessionToken, selectedDay, selectedPart,
                   selectedPlayerId, leaderboard, loading, error, cache,
                   now, ticks, inflight, netCalls>>
    /\ UNCHANGED <<pureVars, proxyVars>>

\* handleSubmit, lines 163-171: a blank code or token
SubmitInvalid ==
    /\ SubmitEnabled
    /\ FormValid
    /\ trim(leaderboardCode) = <<>> \/ trim(sessionToken) = <<>>
    /\ error' = ValidationMessage
    /\ lastEvent' = "invalid"
    /\ UNCHANGED <<year, leaderboardCode, sessionToken, selectedDay, selectedPart,
                   selectedPlayerId, leaderboard, loading, cache,
                   now, ticks, inflight, netCalls>>
    /\ UNCHANGED <<pureVars, proxyVars>>

\* handleSubmit, lines 163-176: window.confirm answered with Cancel
SubmitDeclined ==
    /\ SubmitEnabled
    /\ FormValid
    /\ trim(leaderboardCode) # <<>> /\ trim(sessionToken) # <<>>
    /\ error' = NoError
    /\ lastEvent' = "declined"
    /\ UNCHANGED <<year, leaderboardCode, sessionToken, selectedDay, selectedPart,
                   selectedPlayerId, leaderboard, loading, cache,
                   now, ticks, inflight, netCalls>>
    /\ UNCHANGED <<pureVars, proxyVars>>

\* handleSubmit, lines 163-193 and 217-219: confirmed, the cache entry is
\* fresh; the handler ends without an await
SubmitCacheHit ==
    /\ SubmitEnabled
    /\ FormValid
    /\ trim(leaderboardCode) # <<>> /\ trim(sessionToken) # <<>>
    /\ CacheHit
    /\ LET cached   == cache[CacheKey(year, leaderboardCode)]
           defaults == findDefaultSelection(cached.data)
       IN  /\ leaderboard' = cached.data
           /\ selectedDay' = defaults.day
           /\ selectedPart' = defaults.part
           /\ selectedPlayerId' =
                  EffectPlayerId(findDefaultPlayerId(cached.data), cached.data)
    /\ error' = NoError
    /\ loading' = FALSE
    /\ lastEvent' = "hit"
    /\ UNCHANGED <<year, leaderboardCode, sessionToken, cache,
                   now, ticks, inflight, netCalls>>
    /\ UNCHANGED <<pureVars, proxyVars>>

\* handleSubmit, lines 163-199: confirmed, no fresh entry: fetch() is called
\* and the handler waits for the response
SubmitFetch ==
    /\ SubmitEnabled
    /\ FormValid
    /\ trim(leaderboardCode) # <<>> /\ trim(sessionToken) # <<>>
    /\ ~CacheHit
    /\ netCalls < MaxCalls
    /\ error' = NoError
    /\ loading' = TRUE
    /\ leaderboard' = Null
    /\ netCalls' = netCalls + 1
    /\ inflight' = inflight \cup
          {[call     |-> netCalls + 1,
            stage    |-> "fetch",
            cacheKey |-> CacheKey(year, leaderboardCode),
            body     |-> [year |-> year, leaderboardCode |-> leaderboardCode,
                          sessionToken |-> sessionToken]]}
    /\ lastEvent' = "fetch"
    /\ UNCHANGED <<year, leaderboardCode, sessionToken, selectedDay, selectedPart,
                   selectedPlayerId, cache, now, ticks>>
    /\ UNCHANGED <<pureVars, proxyVars>>

\* handleSubmit, lines 195, 215-219: fetch() rejects (transport failure)
FetchRejected ==
    /\ \E c \in inflight, message \in RejectMessages :
          /\ c.stage = "fetch"
          /\ inflight' = inflight \ {c}
          /\ error' = CaughtMessage(message)
    /\ loading' = FALSE
    /\ lastEvent' = "rejected"
    /\ UNCHANGED <<year, leaderboardCode, sessionToken, selectedDay, selectedPart,
                   selectedPlayerId, leaderboard, cache, now, ticks, netCalls>>
    /\ UNCHANGED <<pureVars, proxyVars>>

\* handleSubmit, lines 201-206, 215-219: the response is not ok
FetchNotOk ==
    /\ \E c \in inflight, status \in ErrorStatuses :
          /\ c.stage = "fetch"
          /\ inflight' = inflight \ {c}
          /\ error' = StatusMessage(status)
    /\ loading' = FALSE
    /\ lastEvent' = "not-ok"
    /\ UNCHANGED <<year, leaderboardCode, sessionToken, selectedDay, selectedPart,
                   selectedPlayerId, leaderboard, cache, now, ticks, netCalls>>
    /\ UNCHANGED <<pureVars, proxyVars>>

\* handleSubmit, lines 201-208: the response is ok, its body is awaited
FetchOk ==
    /\ \E c \in inflight :
          /\ c.stage = "fetch"
          /\ inflight' = (inflight \ {c}) \cup {[c EXCEPT !.stage = "json"]}
    /\ lastEvent' = "ok"
    /\ UNCHANGED <<year, leaderboardCode, sessionToken, selectedDay, selectedPart,
                   selectedPlayerId, leaderboard, loading, error, cache,
                   now, ticks, netCalls>>
    /\ UNCHANGED <<pureVars, proxyVars>>

\* handleSubmit, lines 208, 215-219: response.json() rejects (parse failure)
JsonRejected ==
    /\ \E c \in inflight :
          /\ c.stage = "json"
          /\ inflight' = inflight \ {c}
    /\ error' = CaughtMessage("Unexpected token < in JSON at position 0")
    /\ loading' = FALSE
    /\ lastEvent' = "unparsed"
    /\ UNCHANGED <<year, leaderboardCode, sessionToken, selectedDay, selectedPart,
                   selectedPlayerId, leaderboard, cache, now, ticks, netCalls>>
    /\ UNCHANGED <<pureVars, proxyVars>>

\* handleSubmit, lines 208-214, 217-219: the body parsed; the entry of the
\* key taken before the awaits is written and the document shown
JsonParsed ==
    /\ \E c \in inflight, members \in ServedMembers :
          LET json     == ServedDoc(c.body, members)
              defaults == findDefaultSelection(json)
          IN  /\ c.stage = "json"
              /\ inflight' = inflight \ {c}
              /\ cache' = CacheWrite(c.cacheKey, json)
              /\ leaderboard' = json
              /\ selectedDay' = defaults.day
              /\ selectedPart' = defaults.part
              /\ selectedPlayerId' = EffectPlayerId(findDefaultPlayerId(json), json)
    /\ loading' = FALSE
    /\ lastEvent' = "loaded"
    /\ UNCHANGED <<year, leaderboardCode, sessionToken, error, now, ticks, netCalls>>
    /\ UNCHANGED <<pureVars, proxyVars>>

Next ==
    \/ SetYear
    \/ SetLeaderboardCode
    \/ SetSessionToken
    \/ Tick
    \/ SelectPlayer
    \/ SubmitBlocked
    \/ SubmitInvalid
    \/ SubmitDeclined
    \/ SubmitCacheHit
    \/ SubmitFetch
    \/ FetchRejected
    \/ FetchNotOk
    \/ FetchOk
    \/ JsonRejected
    \/ JsonParsed

\* the page as loaded: DEFAULT_YEAR in the year field, nothing else entered,
\* nothing loaded, an empty cache; the other components at rest
Init ==
    /\ year \in Years \ {<<>>}
    /\ leaderboardCode = <<>> /\ sessionToken = <<>>
    /\ selectedDay = ToString(1) /\ selectedPart = "1" /\ selectedPlayerId = <<>>
    /\ leaderboard = Null /\ loading = FALSE /\ error = NoError /\ cache = <<>>
    /\ now = 0 /\ ticks = 0 /\ inflight = {} /\ netCalls = 0
    /\ lastEvent = "other"
    /\ doc = Null /\ out = NoCall
    /\ req = Null /\ ppc = "idle" /\ upstream = Null /\ upstreamCalls = 0
    /\ res = <<>>

Spec == Init /\ [][Next]_vars

----------------------------------------------------------------------------
(* Claims about the App component, checked under Spec.  lastEvent names    *)
(* the action that led to a state, so a step is recognised by lastEvent'.  *)

\* the steps in which a click on the submit button passed validation and the
\* confirmation: handleSubmit reached its cache check
ConfirmedSubmit == lastEvent' \in {"hit", "fetch"}

\* the steps that are a click on the submit button
SubmitClick == lastEvent' \in {"blocked", "invalid", "declined", "hit", "fetch"}

\* the cache key of the fields as they are
CurrentKey == CacheKey(year, leaderboardCode)

\* C1: a confirmed submit for a (year, code) whose stored entry was fetched
\* less than 15 minutes ago makes no network call and displays the cached
\* document
C1_FreshEntryNoCall ==
    [][(/\ ConfirmedSubmit
        /\ CurrentKey \in DOMAIN cache
        /\ now - cache[CurrentKey].fetchedAt < FIFTEEN_MIN)
       => /\ netCalls' = netCalls
          /\ inflight' = inflight
          /\ leaderboard' = cache[CurrentKey].data
          /\ loading' = FALSE]_vars

\* C1 witness: a submit served from the cache one millisecond before its
\* entry turns 15 minutes old, the only fetch ever made being the one that
\* stored it
C1_Witness ==
    /\ lastEvent = "hit"
    /\ netCalls = 1
    /\ CurrentKey \in DOMAIN cache
    /\ now - cache[CurrentKey].fetchedAt = FIFTEEN_MIN - 1
    /\ leaderboard = cache[CurrentKey].data

\* C2: a confirmed submit for a (year, code) whose entry is missing or at
\* least 15 minutes old (the boundary included) starts a fetch for that key,
\* and the fetch, once its body has parsed, writes the entry of that key with
\* the new document and the time of the write
C2_StaleOrMissingFetches ==
    [][/\ (/\ ConfirmedSubmit
           /\ \/ CurrentKey \notin DOMAIN cache
              \/ now - cache[CurrentKey].fetchedAt >= FIFTEEN_MIN)
          => /\ netCalls' = netCalls + 1
             /\ \E c \in inflight' \ inflight :
                   /\ c.cacheKey = CurrentKey
                   /\ c.stage = "fetch"
                   /\ c.body = [year |-> year, leaderboardCode |-> leaderboardCode,
                                sessionToken |-> sessionToken]
       /\ lastEvent' = "loaded"
          => \E c \in inflight \ inflight' :
                /\ c.cacheKey \in DOMAIN cache'
                /\ leaderboard' # Null
                /\ leaderboard'.event = c.body.year
                /\ leaderboard'.owner_id = c.body.leaderboardCode
                /\ cache'[c.cacheKey] = [data |-> leaderboard', fetchedAt |-> now]
      ]_vars

\* C2 witness: a fetch started for a key whose entry is exactly 15 minutes
\* old
C2_Witness ==
    /\ lastEvent = "fetch"
    /\ CurrentKey \in DOMAIN cache
    /\ now - cache[CurrentKey].fetchedAt = FIFTEEN_MIN
    /\ \E c \in inflight : c.cacheKey = CurrentKey

\* a field of the form is missing: empty or blank
FieldMissing ==
    \/ trim(year) = <<>>
    \/ trim(leaderboardCode) = <<>>
    \/ trim(sessionToken) = <<>>

\* C7 as stated: a submit with year, code or token missing ends in the inline
\* validation error and attempts no network call
C7_AsStated ==
    [][(SubmitClick /\ FieldMissing)
       => /\ error' = ValidationMessage
          /\ netCalls' = netCalls
          /\ inflight' = inflight]_vars

\* C7 amended: a submit with year, code or token missing attempts no network
\* call; it ends in the inline validation error when no field is empty and
\* the code or the token is blank, while an empty field, the year included,
\* is stopped by the form before handleSubmit runs and leaves the inline
\* error as it was
C7_MissingFieldNoCall ==
    [][(SubmitClick /\ FieldMissing)
       => /\ netCalls' = netCalls
          /\ inflight' = inflight
          /\ IF year = <<>> \/ leaderboardCode = <<>> \/ sessionToken = <<>>
             THEN lastEvent' = "blocked" /\ error' = error
             ELSE lastEvent' = "invalid" /\ error' = ValidationMessage]_vars

\* C7 witness: the inline validation error after a submit with a blank token,
\* the cache holding an entry so that a fetch had been possible before
C7_Witness ==
    /\ lastEvent = "invalid"
    /\ error = ValidationMessage
    /\ sessionToken = <<" ">>
    /\ leaderboardCode = <<"A">>
    /\ netCalls = 1

\* C9: at most one fetch is in flight at any time, and one is in flight
\* exactly while the loading flag is set
C9_OneFetchInFlight ==
    /\ Cardinality(inflight) <= 1
    /\ (inflight # {}) <=> loading

\* C9 witness: a second fetch in flight, started after the first one ended
C9_Witness ==
    /\ netCalls = 2
    /\ \E c \in inflight : c.call = 2
    /\ loading

\* C10: the cache changes only when a fetch's body has parsed, and then only
\* the entry of that fetch's key changes, to the new document and time; every
\* other step leaves the cache as it is, and no entry is ever removed
C10_CacheWrittenOnlyOnSuccess ==
    [][/\ DOMAIN cache \subseteq DOMAIN cache'
       /\ cache' # cache
          => /\ lastEvent' = "loaded"
             /\ \E c \in inflight \ inflight' :
                   /\ c.stage = "json"
                   /\ DOMAIN cache' = (DOMAIN cache) \cup {c.cacheKey}
                   /\ \A k \in (DOMAIN cache) \ {c.cacheKey} : cache'[k] = cache[k]
                   /\ cache'[c.cacheKey] = [data |-> leaderboard', fetchedAt |-> now]
       /\ lastEvent' \in {"blocked", "invalid", "declined", "hit", "fetch",
                          "rejected", "not-ok", "unparsed"}
          => cache' = cache
      ]_vars

\* C10 witness: the refetch of an entry at least 15 minutes old ended in a
\* response that is not ok, and the old entry is still there
C10_Witness ==
    /\ lastEvent = "not-ok"
    /\ CurrentKey \in DOMAIN cache
    /\ now - cache[CurrentKey].fetchedAt >= FIFTEEN_MIN
    /\ netCalls = 2

\* the steps in which a submit attempt settles, and those in which it fails
Settled == lastEvent' \in {"hit", "loaded", "not-ok", "rejected", "unparsed"}
Failed == lastEvent' \in {"not-ok", "rejected", "unparsed"}

\* C11: a network call is made only by a submit click, one per click, never
\* by the continuation of an earlier attempt (no retry); when an attempt
\* settles (cache hit, success, response not ok, transport or parse failure)
\* no fetch is pending, the loading flag is false and the submit button is
\* enabled again; after a failed fetch the error text is not empty
C11_OneCallThenSettled ==
    [][/\ netCalls' # netCalls
          => /\ lastEvent' = "fetch"
             /\ netCalls' = netCalls + 1
             /\ Cardinality(inflight' \ inflight) = 1
       /\ SubmitClick => netCalls' \in {netCalls, netCalls + 1}
       /\ Settled
          => /\ netCalls' = netCalls
             /\ inflight' = {}
             /\ loading' = FALSE
             /\ SubmitEnabled'
       /\ Failed => error'.text # ""
      ]_vars

\* C11 witness: a second attempt has failed with a rejection that carries no
\* message; the fallback text is shown and the form accepts another submit
C11_Witness ==
    /\ lastEvent = "rejected"
    /\ netCalls = 2
    /\ error = CaughtMessage("")
    /\ ~loading
    /\ SubmitEnabled /\ FormValid

\* C13: every cache entry stored under a key holds a document fetched for
\* the year and code that key is made of, and for no other year and code,
\* whatever the user typed into the year and code fields while the fetch was
\* pending
C13_EntryFetchedForItsKey ==
    \A k \in DOMAIN cache :
        LET data == cache[k].data
        IN  /\ k = data.event \o <<":">> \o data.owner_id
            /\ \A y \in Years, code \in Codes :
                   k = y \o <<":">> \o code
                       => (data.event = y /\ data.owner_id = code)

\* C13 witness: an entry has just been written while the year field and the
\* code field both differ from the year and code it was fetched for
C13_Witness ==
    /\ lastEvent = "loaded"
    /\ \E k \in DOMAIN cache :
          /\ cache[k].fetchedAt = now
          /\ cache[k].data = leaderboard
          /\ cache[k].data.event # year
          /\ cache[k].data.owner_id # leaderboardCode
    /\ CurrentKey \notin DOMAIN cache

\* the string ids of the members of a document
MemberIds(lb) == {ToString(Members(lb)[i].id) : i \in 1..Len(Members(lb))}

\* C14: whenever a leaderboard with at least one member is displayed,
\* selectedPlayerId is the string id of one of its members
C14_SelectedPlayerIsMember ==
    (leaderboard # Null /\ Members(leaderboard) # <<>>)
        => selectedPlayerId \in MemberIds(leaderboard)

\* C14 witness: after a second load, of a board with two members, a click
\* on a player tile has selected the member that is not the default one
C14_Witness ==
    /\ netCalls = 2
    /\ Cardinality(DOMAIN cache) = 2
    /\ leaderboard # Null
    /\ Len(Members(leaderboard)) = 2
    /\ selectedPlayerId \in MemberIds(leaderboard)
    /\ selectedPlayerId # findDefaultPlayerId(leaderboard)

----------------------------------------------------------------------------
(* SpecProxy: the serverless handler of src/unnamed/part_001, one request  *)
(* at a time.  req is the request, upstream what adventofcode.com did for  *)
(* it, res the responses sent for it.                                      *)

Methods == {"OPTIONS", "GET", "PUT", "POST"}

\* a field of the request body: missing (undefined or ""), a blank, or a
\* value; a blank is truthy
BodyFields == {<<>>, <<" ">>, <<"v">>}

\* req.body: absent, or an object with the three fields
Bodies ==
    {Null} \cup
    {[year |-> y, leaderboardCode |-> c, sessionToken |-> t] :
        y \in BodyFields, c \in BodyFields, t \in BodyFields}

\* the statuses upstream may answer with
UpstreamStatuses == {200, 204, 302, 401, 404, 500}

\* what the body of an upstream response parses to: nothing (not JSON), or
\* a document
UpstreamBodies == {Null} \cup {[members |-> m] : m \in ServedMembers}

\* const { year, leaderboardCode, sessionToken } = req.body || {}
Destructure(body) ==
    IF body = Null
    THEN [year |-> <<>>, leaderboardCode |-> <<>>, sessionToken |-> <<>>]
    ELSE body

\* MissingField with the token forgotten: !year || !leaderboardCode
MissingField_TokenForgotten(body) ==
    LET f == Destructure(body)
    IN  f.year = <<>> \/ f.leaderboardCode = <<>>

\* !year || !leaderboardCode || !sessionToken
MissingField(body) ==
    LET f == Destructure(body)
    IN  f.year = <<>> \/ f.leaderboardCode = <<>> \/ f.sessionToken = <<>>

\* Response.ok: the status is in the range 200-299
Ok(status) == 200 <= status /\ status <= 299

\* res.status(status).end() / .json(body): one more response sent
Respond(status, body) == Append(res, [status |-> status, body |-> body])

\* a request arrives
Receive ==
    /\ ppc \in {"idle", "done"}
    /\ \E m \in Methods, b \in Bodies : req' = [method |-> m, body |-> b]
    /\ ppc' = "start"
    /\ upstream' = Null
    /\ upstreamCalls' = 0
    /\ res' = <<>>
    /\ UNCHANGED <<pureVars, appVars>>

\* lines 2-7: the preflight
HandleOptions ==
    /\ ppc = "start"
    /\ req.method = "OPTIONS"
    /\ res' = Respond(204, Null)
    /\ ppc' = "done"
    /\ UNCHANGED <<req, upstream, upstreamCalls>>
    /\ UNCHANGED <<pureVars, appVars>>

\* line 8: any other method than POST
HandleNotPost ==
    /\ ppc = "start"
    /\ req.method # "OPTIONS"
    /\ req.method # "POST"
    /\ res' = Respond(405, Null)
    /\ ppc' = "done"
    /\ UNCHANGED <<req, upstream, upstreamCalls>>
    /\ UNCHANGED <<pureVars, appVars>>

\* lines 10-13: a POST with a field missing
HandleMissing ==
    /\ ppc = "start"
    /\ req.method # "OPTIONS"
    /\ req.method = "POST"
    /\ MissingField(req.body)
    /\ res' = Respond(400, [error |-> "Missing required fields"])
    /\ ppc' = "done"
    /\ UNCHANGED <<req, upstream, upstreamCalls>>
    /\ UNCHANGED <<pureVars, appVars>>

\* lines 15-25: a complete POST: fetch() to upstream is called and awaited
HandleFetch ==
    /\ ppc = "start"
    /\ req.method # "OPTIONS"
    /\ req.method = "POST"
    /\ ~MissingField(req.body)
    /\ upstreamCalls' = upstreamCalls + 1
    /\ ppc' = "fetch"
    /\ UNCHANGED <<req, upstream, res>>
    /\ UNCHANGED <<pureVars, appVars>>

\* lines 16, 36-38: fetch() rejects
UpstreamRejected ==
    /\ ppc = "fetch"
    /\ upstream' = [kind |-> "rejected", status |-> 0, body |-> Null]
    /\ res' = Respond(500, [error |-> "Fetch failed"])
    /\ ppc' = "done"
    /\ UNCHANGED <<req, upstreamCalls>>
    /\ UNCHANGED <<pureVars, appVars>>

\* lines 27-31: upstream answers with a status that is not ok
UpstreamNotOk ==
    /\ ppc = "fetch"
    /\ \E status \in UpstreamStatuses :
          /\ ~Ok(status)
          /\ upstream' = [kind |-> "response", status |-> status, body |-> Null]
          /\ res' = Respond(status, [error |-> "Upstream status", status |-> status])
    /\ ppc' = "done"
    /\ UNCHANGED <<req, upstreamCalls>>
    /\ UNCHANGED <<pureVars, appVars>>

\* lines 27, 33: upstream answers ok with some body, which is awaited
UpstreamOk ==
    /\ ppc = "fetch"
    /\ \E status \in UpstreamStatuses, body \in UpstreamBodies :
          /\ Ok(status)
          /\ upstream' = [kind |-> "response", status |-> status, body |-> body]
    /\ ppc' = "json"
    /\ UNCHANGED <<req, upstreamCalls, res>>
    /\ UNCHANGED <<pureVars, appVars>>

\* lines 33, 36-38: upstream.json() rejects
UpstreamJsonRejected ==
    /\ ppc = "json"
    /\ upstream.body = Null
    /\ res' = Respond(500, [error |-> "Unexpected end of JSON input"])
    /\ ppc' = "done"
    /\ UNCHANGED <<req, upstream, upstreamCalls>>
    /\ UNCHANGED <<pureVars, appVars>>

\* lines 33-35: the body parsed
UpstreamJsonParsed ==
    /\ ppc = "json"
    /\ upstream.body # Null
    /\ res' = Respond(200, upstream.body)
    /\ ppc' = "done"
    /\ UNCHANGED <<req, upstream, upstreamCalls>>
    /\ UNCHANGED <<pureVars, appVars>>

ProxyNext ==
    \/ Receive
    \/ HandleOptions
    \/ HandleNotPost
    \/ HandleMissing
    \/ HandleFetch
    \/ UpstreamRejected
    \/ UpstreamNotOk
    \/ UpstreamOk
    \/ UpstreamJsonRejected
    \/ UpstreamJsonParsed

\* no request yet; the App and the transformation functions at rest
InitProxy ==
    /\ req = Null /\ ppc = "idle" /\ upstream = Null /\ upstreamCalls = 0
    /\ res = <<>>
    /\ year = <<>> /\ leaderboardCode = <<>> /\ sessionToken = <<>>
    /\ selectedDay = ToString(1) /\ selectedPart = "1" /\ selectedPlayerId = <<>>
    /\ leaderboard = Null /\ loading = FALSE /\ error = NoError /\ cache = <<>>
    /\ now = 0 /\ ticks = 0 /\ inflight = {} /\ netCalls = 0
    /\ lastEvent = "other"
    /\ doc = Null /\ out = NoCall

SpecProxy == InitProxy /\ [][ProxyNext]_vars

\* the status the claim assigns to a handled request
ExpectedStatus ==
    IF req.method = "OPTIONS" THEN 204
    ELSE IF req.method # "POST" THEN 405
    ELSE IF \/ req.body = Null
            \/ req.body.year = <<>>
            \/ req.body.leaderboardCode = <<>>
            \/ req.body.sessionToken = <<>>
         THEN 400
    ELSE IF upstream.kind = "rejected" THEN 500
    ELSE IF upstream.status < 200 \/ upstream.status > 299 THEN upstream.status
    ELSE IF upstream.body = Null THEN 500
    ELSE 200

\* C8: the handler answers every request with exactly one status: 204 for
\* OPTIONS, else 405 for a method other than POST, else 400 for a field
\* missing, without contacting upstream, else the upstream's own status if
\* it is not 2xx, 200 with the upstream's JSON body if it is and the body
\* parses, and 500 if the fetch or the parse fails; upstream is contacted at
\* most once and only for a complete POST
C8_OneStatusInOrder ==
    /\ Len(res) <= 1
    /\ ppc # "done" => res = <<>>
    /\ ppc = "done" =>
          /\ Len(res) = 1
          /\ res[1].status = ExpectedStatus
          /\ res[1].status = 200 => res[1].body = upstream.body
          /\ res[1].status \in {204, 405, 400} \/ req.method # "POST"
                => upstreamCalls = 0 /\ upstream = Null
    /\ upstreamCalls <= 1

\* C8 witness: a complete POST whose upstream answered 204, a success
\* without a JSON body, answered with 500
C8_Witness ==
    /\ ppc = "done"
    /\ req.method = "POST"
    /\ upstream # Null
    /\ upstream.kind = "response"
    /\ upstream.status = 204
    /\ res[1].status = 500

====
